---- MODULE Spec2Model ----
(***************************************************************************)
(* WHIDS (Windows Host IDS), src/whids.go: rule loading, filter validation, *)
(* the two shutdown watchers, one worker goroutine per monitored channel,   *)
(* the shared counters and the final statistics report of main().           *)
(*                                                                          *)
(* Strings the program inspects character by character (file names for     *)
(* filepath.Ext, channel identifiers for strings.ToLower) are sequences of  *)
(* one-character strings.                                                   *)
(***************************************************************************)
EXTENDS Integers, Sequences, FiniteSets, TLC

\* ------------------------------------------------------------------ bounds

\* Events the sources deliver in one run, all subscriptions together.
MaxEvents == 2
\* Number of -c arguments (monitored channels) at most.
MaxChannels == 2

\* --------------------------------------------------------------- constants

exitFail == 1
exitSuccess == 0

databasePath == <<"l","a","t","e","s","t","-","d","a","t","a","b","a","s","e">>

ruleExts == << <<".","g","e","n">>, <<".","g","e","n","e">> >>

SysmonChannel ==
  <<"M","i","c","r","o","s","o","f","t","-","W","i","n","d","o","w","s","-",
    "S","y","s","m","o","n","/","O","p","e","r","a","t","i","o","n","a","l">>
SecurityChannel == <<"S","e","c","u","r","i","t","y">>

\* channelAliases as a set of (alias, channel) pairs
channelAliases ==
  { [alias |-> <<"s","y","s","m","o","n">>, channel |-> SysmonChannel],
    [alias |-> <<"s","e","c","u","r","i","t","y">>, channel |-> SecurityChannel] }

\* ------------------------------------------------------------ pure helpers

Range(s) == { s[i] : i \in 1..Len(s) }

Max(S) == CHOOSE x \in S : \A y \in S : y <= x

\* strings.ToLower on one character (ASCII letters used by the inputs)
UpperToLower ==
  [c \in {"A","B","C","D","E","F","G","H","I","J","K","L","M","N","O","P","Q",
          "R","S","T","U","V","W","X","Y","Z"} |->
     CASE c = "A" -> "a" [] c = "B" -> "b" [] c = "C" -> "c" [] c = "D" -> "d"
       [] c = "E" -> "e" [] c = "F" -> "f" [] c = "G" -> "g" [] c = "H" -> "h"
       [] c = "I" -> "i" [] c = "J" -> "j" [] c = "K" -> "k" [] c = "L" -> "l"
       [] c = "M" -> "m" [] c = "N" -> "n" [] c = "O" -> "o" [] c = "P" -> "p"
       [] c = "Q" -> "q" [] c = "R" -> "r" [] c = "S" -> "s" [] c = "T" -> "t"
       [] c = "U" -> "u" [] c = "V" -> "v" [] c = "W" -> "w" [] c = "X" -> "x"
       [] c = "Y" -> "y" [] c = "Z" -> "z"]

ToLower(s) ==
  [i \in 1..Len(s) |-> IF s[i] \in DOMAIN UpperToLower THEN UpperToLower[s[i]] ELSE s[i]]

ResolveAlias_CaseSensitive(winChan) ==
  LET hits == { a \in channelAliases : a.alias = winChan }
  IN  IF hits # {} THEN (CHOOSE a \in hits : TRUE).channel ELSE winChan

\* the worker's alias lookup: channelAliases[strings.ToLower(winChan)], else winChan
ResolveAlias(winChan) ==
  LET hits == { a \in channelAliases : a.alias = ToLower(winChan) }
  IN  IF hits # {} THEN (CHOOSE a \in hits : TRUE).channel ELSE winChan

\* filepath.Ext: the suffix beginning at the final dot of the final path
\* element, empty when that element has no dot
Ext(name) ==
  LET seps == { i \in 1..Len(name) : name[i] = "/" }
      from == IF seps = {} THEN 1 ELSE Max(seps) + 1
      dots == { i \in from..Len(name) : name[i] = "." }
  IN  IF dots = {} THEN <<>> ELSE SubSeq(name, Max(dots), Len(name))

\* setRuleExts after the loop adding every element of ruleExts
setRuleExts == Range(ruleExts)

JoinPath(dir, name) == dir \o <<"/">> \o name

\* filepath.Base of a path built by JoinPath
Base(path) ==
  LET seps == { i \in 1..Len(path) : path[i] = "/" }
  IN  IF seps = {} THEN path ELSE SubSeq(path, Max(seps) + 1, Len(path))

\* ---------------------------------------------- the file system (input data)

FileA == <<"a",".","g","e","n">>
FileB == <<"b",".","g","e","n","e">>
FileC == <<"c",".","t","x","t">>
FileN == <<"n",".","g","e","n">>
FilePool == <<FileA, FileB, FileC, FileN>>

PathDir == <<"r","u","l","e","s">>
PathLink == <<"l","n","k">>
PathMissing == <<"n","o","p","e">>

\* the rule each file of the pool defines (one rule per file)
RuleOf(name) ==
  CASE name = FileA -> [name |-> "A", crit |-> 7, field |-> "f1", neg |-> FALSE, tags |-> {"t"}]
    [] name = FileB -> [name |-> "B", crit |-> 3, field |-> "f2", neg |-> FALSE, tags |-> {}]
    [] name = FileC -> [name |-> "C", crit |-> 9, field |-> "f2", neg |-> FALSE, tags |-> {"t"}]
    [] name = FileN -> [name |-> "N", crit |-> 5, field |-> "f2", neg |-> TRUE, tags |-> {}]

\* raw events a source can deliver: the document the event carries and whether
\* its conversion fails
RawEvents ==
  { [doc |-> {"f1"}, bad |-> FALSE], [doc |-> {"f2"}, bad |-> FALSE],
    [doc |-> {"f3"}, bad |-> FALSE], [doc |-> {"f1"}, bad |-> TRUE] }

NoEvent == [doc |-> {}, bad |-> FALSE]

\* --------------------------------------------------------------- the state

VARIABLES
  \* command line and package variables
  versionFlag, update, rulesPath, tagsVar, namesVar, timeout,
  criticalityThresh, windowsChannels,
  \* the number of events the monitored sources produce during the run
  feed,
  \* file system: listing of the rule directory, files that do not parse,
  \* whether the downloaded database has been unpacked
  fsDir, fsBad, unzipped,
  \* main goroutine
  mainPc, exitCode, tags, names, e, walkIdx, spawned, reports,
  \* watchers: deadline timer and interrupt listener
  timerPc, timerSent, intPc, intSent,
  \* workers and their subscriptions; delivered counts the events the
  \* subscriptions handed to the workers so far
  wpc, winChan, sub, delivered, xe, event, err, tmp,
  \* shared counters and standard output (number of alert lines)
  eventCnt, alertsCnt, stdout

flagVars == <<versionFlag, update, tagsVar, namesVar, timeout, criticalityThresh,
              windowsChannels, feed, fsDir, fsBad>>
mainVars == <<rulesPath, unzipped, mainPc, exitCode, tags, names, e, walkIdx,
              spawned, reports>>
watchVars == <<timerPc, timerSent, intPc, intSent>>
workVars == <<wpc, winChan, sub, delivered, xe, event, err, tmp>>
cntVars == <<eventCnt, alertsCnt, stdout>>
vars == <<flagVars, mainVars, watchVars, workVars, cntVars>>

Workers == 1..MaxChannels
channels == windowsChannels

\* ----------------------------------------------------------- the Rule Engine

\* engine.NewEngine(trace)
NewEngine ==
  [created |-> TRUE, configured |-> FALSE, names |-> {}, tags |-> {},
   rules |-> {}, loads |-> <<>>]

NoEngine ==
  [created |-> FALSE, configured |-> FALSE, names |-> {}, tags |-> {},
   rules |-> {}, loads |-> <<>>]

\* e.SetFilters(names, tags)
SetFilters(eng, ns, ts) ==
  [eng EXCEPT !.configured = TRUE, !.names = Range(ns), !.tags = Range(ts)]

\* e.Load(path): the file's rule is added when the file parses; the error is
\* returned otherwise
LoadFails(path) == Base(path) \in fsBad

Load(eng, path) ==
  [eng EXCEPT !.loads = Append(@, path),
              !.rules = IF LoadFails(path) THEN @ ELSE @ \cup {RuleOf(Base(path))}]

\* e.Count()
Count(eng) == Cardinality(eng.rules)

Selected(eng, r) ==
  /\ eng.names = {} \/ r.name \in eng.names
  /\ eng.tags = {} \/ r.tags \cap eng.tags # {}

RuleMatches(r, doc) == (r.field \in doc) # r.neg

\* e.Match(event): the matched rule names and the criticality
Match(eng, doc) ==
  LET hit == { r \in eng.rules : Selected(eng, r) /\ RuleMatches(r, doc) }
  IN  [n |-> { r.name : r \in hit },
       crit |-> IF hit = {} THEN 0 ELSE Max({ r.crit : r \in hit })]

\* XMLEventToGoEvtxMap(xe): the map and the error; the map stays empty when
\* json.Marshal or json.Unmarshal fails
XMLEventToGoEvtxMap(x) ==
  IF x.bad THEN [ge |-> {}, err |-> TRUE] ELSE [ge |-> x.doc, err |-> FALSE]

\* fsutil.ResolveLink, fsutil.IsFile, fsutil.IsDir on the modelled file system
CwdFiles == {FileA, FileC}
Resolvable(path) ==
  \/ path \in CwdFiles \cup {PathDir, PathLink}
  \/ path = databasePath /\ unzipped
ResolveLink(path) == IF path = PathLink THEN PathDir ELSE path
IsFile(path) == path \in CwdFiles
IsDir(path) == path = PathDir \/ (path = databasePath /\ unzipped)

\* ------------------------------------------------------------------- inputs

ChanSysmon == <<"S","y","s","m","o","n">>
ChanApp == <<"A","p","p">>
ChanSecurity == <<"s","e","c","u","r","i","t","y">>
ChannelIds == <<ChanSysmon, ChanApp, ChanSecurity>>

\* the -c arguments: one list for each length up to MaxChannels
ChanList(k) == [i \in 1..k |-> ChannelIds[((i - 1) % Len(ChannelIds)) + 1]]
ChannelArgs == { ChanList(k) : k \in 0..MaxChannels }

RulePaths == {<<>>, PathDir, PathLink, PathMissing, FileA, FileC}

\* every start-up configuration, with at most one monitored channel
AllConfigs ==
  { c \in [versionFlag : BOOLEAN, update : BOOLEAN, rulesPath : RulePaths,
           tagsVar : {<<>>, <<"t">>}, namesVar : {<<>>, <<"A">>},
           timeout : {0, 1}, criticalityThresh : {5},
           windowsChannels : {ChanList(0), ChanList(1)},
           feed : {MaxEvents},
           fsDir : {FilePool, <<FileA, FileB, FileC>>, <<FileC>>},
           fsBad : {{}, {FileA}, {FileB, FileN}}] :
      c.fsBad \subseteq Range(c.fsDir) }

\* configurations that reach monitoring, with up to MaxChannels channels
RunConfigs ==
  [versionFlag : {FALSE}, update : {FALSE}, rulesPath : {PathDir},
   tagsVar : {<<>>}, namesVar : {<<>>},
   timeout : {1}, criticalityThresh : {5},
   windowsChannels : ChannelArgs,
   feed : {MaxEvents},
   fsDir : {FilePool},
   fsBad : {{FileN}}]

\* the same for the runs checked for progress under fairness: with and
\* without a timeout, and sources that deliver no event, or one
FairFeeds == {0, 1}
FairConfigs ==
  { [c EXCEPT !.feed = n, !.timeout = t] :
      c \in RunConfigs, n \in FairFeeds, t \in {0, 1} }

InitWith(c) ==
  /\ versionFlag = c.versionFlag
  /\ update = c.update
  /\ rulesPath = c.rulesPath
  /\ tagsVar = c.tagsVar
  /\ namesVar = c.namesVar
  /\ timeout = c.timeout
  /\ criticalityThresh = c.criticalityThresh
  /\ windowsChannels = c.windowsChannels
  /\ feed = c.feed
  /\ fsDir = c.fsDir
  /\ fsBad = c.fsBad
  /\ unzipped = FALSE
  /\ mainPc = "flags"
  /\ exitCode = exitSuccess
  /\ tags = <<>>
  /\ names = <<>>
  /\ e = NoEngine
  /\ walkIdx = 0
  /\ spawned = 0
  /\ reports = <<>>
  /\ timerPc = "none"
  /\ timerSent = 0
  /\ intPc = "none"
  /\ intSent = 0
  /\ wpc = [w \in Workers |-> "none"]
  /\ winChan = [w \in Workers |-> <<>>]
  /\ sub = [w \in Workers |-> "none"]
  /\ delivered = 0
  /\ xe = [w \in Workers |-> NoEvent]
  /\ event = [w \in Workers |-> {}]
  /\ err = [w \in Workers |-> FALSE]
  /\ tmp = [w \in Workers |-> 0]
  /\ eventCnt = 0
  /\ alertsCnt = 0
  /\ stdout = 0

Init == \E c \in AllConfigs : InitWith(c)
InitRun == \E c \in RunConfigs : InitWith(c)
InitFair == \E c \in FairConfigs : InitWith(c)

\* --------------------------------------------------------- the main goroutine

\* os.Exit / log.LogErrorAndExit: the process ends, every goroutine with it
Exit(code) ==
  /\ mainPc' = "exited"
  /\ exitCode' = code

Exited == mainPc = "exited"

\* lines 120-124: print version information and exit
CheckVersion ==
  /\ mainPc = "flags"
  /\ IF versionFlag
       THEN Exit(exitSuccess)
       ELSE mainPc' = "update" /\ UNCHANGED exitCode
  /\ UNCHANGED <<flagVars, rulesPath, unzipped, tags, names, e, walkIdx, spawned,
                 reports, watchVars, workVars, cntVars>>

\* lines 131-144: download and unzip the rule database
UpdateDatabase ==
  /\ mainPc = "update"
  /\ IF update
       THEN \E outcome \in {"ok", "download failed", "unzip failed"} :
              IF outcome = "ok"
                THEN /\ unzipped' = TRUE
                     /\ rulesPath' = databasePath
                     /\ mainPc' = "control"
                     /\ UNCHANGED exitCode
                ELSE /\ Exit(exitFail)
                     /\ UNCHANGED <<unzipped, rulesPath>>
       ELSE /\ mainPc' = "control"
            /\ UNCHANGED <<unzipped, rulesPath, exitCode>>
  /\ UNCHANGED <<flagVars, tags, names, e, walkIdx, spawned, reports,
                 watchVars, workVars, cntVars>>

ControlParameters_NoCheck ==
  /\ mainPc = "control"
  /\ mainPc' = "init"
  /\ UNCHANGED <<flagVars, rulesPath, unzipped, exitCode, tags, names, e, walkIdx,
                 spawned, reports, watchVars, workVars, cntVars>>

\* lines 146-149: control parameters
ControlParameters ==
  /\ mainPc = "control"
  /\ IF rulesPath = <<>>
       THEN Exit(exitFail)
       ELSE mainPc' = "init" /\ UNCHANGED exitCode
  /\ UNCHANGED <<flagVars, rulesPath, unzipped, tags, names, e, walkIdx, spawned,
                 reports, watchVars, workVars, cntVars>>

\* lines 151-155: initialization
Initialization ==
  /\ mainPc = "init"
  /\ e' = NewEngine
  /\ tags' = tagsVar
  /\ names' = namesVar
  /\ mainPc' = "validate"
  /\ UNCHANGED <<flagVars, rulesPath, unzipped, exitCode, walkIdx, spawned,
                 reports, watchVars, workVars, cntVars>>

Validation_NoCheck ==
  /\ mainPc = "validate"
  /\ e' = SetFilters(e, names, tags)
  /\ mainPc' = "load"
  /\ UNCHANGED <<flagVars, rulesPath, unzipped, exitCode, tags, names, walkIdx,
                 spawned, reports, watchVars, workVars, cntVars>>

\* lines 157-161: validation of the filters, then e.SetFilters
Validation ==
  /\ mainPc = "validate"
  /\ IF Len(tags) > 0 /\ Len(names) > 0
       THEN Exit(exitFail) /\ UNCHANGED e
       ELSE /\ e' = SetFilters(e, names, tags)
            /\ mainPc' = "load"
            /\ UNCHANGED exitCode
  /\ UNCHANGED <<flagVars, rulesPath, unzipped, tags, names, walkIdx, spawned,
                 reports, watchVars, workVars, cntVars>>

\* lines 168-180, 196-198: resolve the rule path; load it when it is a file,
\* start the walk when it is a directory, fail otherwise
LoadRules ==
  /\ mainPc = "load"
  /\ LET realPath == ResolveLink(rulesPath)
     IN  IF ~Resolvable(rulesPath)
           THEN Exit(exitFail) /\ UNCHANGED <<e, walkIdx>>
           ELSE IF IsFile(realPath)
             THEN /\ e' = Load(e, realPath)
                  /\ mainPc' = "loaded"
                  /\ UNCHANGED <<exitCode, walkIdx>>
             ELSE IF IsDir(realPath)
               THEN /\ walkIdx' = 1
                    /\ mainPc' = "walk"
                    /\ UNCHANGED <<exitCode, e>>
               ELSE Exit(exitFail) /\ UNCHANGED <<e, walkIdx>>
  /\ UNCHANGED <<flagVars, rulesPath, unzipped, tags, names, spawned, reports,
                 watchVars, workVars, cntVars>>

ValidRuleExt_Any(ext) == TRUE

\* line 188: the file extension is in the set of valid rule extensions
ValidRuleExt(ext) == ext \in setRuleExts

WalkFile_AbortsOnError ==
  /\ mainPc = "walk"
  /\ IF walkIdx > Len(fsDir)
       THEN mainPc' = "loaded" /\ UNCHANGED <<e, walkIdx, exitCode>>
       ELSE LET fi == fsDir[walkIdx]
                rulefile == JoinPath(ResolveLink(rulesPath), fi)
            IN  IF Ext(fi) \in setRuleExts
                  THEN /\ e' = Load(e, rulefile)
                       /\ walkIdx' = walkIdx + 1
                       /\ IF LoadFails(rulefile)
                            THEN Exit(exitFail)
                            ELSE UNCHANGED <<mainPc, exitCode>>
                  ELSE /\ walkIdx' = walkIdx + 1
                       /\ UNCHANGED <<e, mainPc, exitCode>>
  /\ UNCHANGED <<flagVars, rulesPath, unzipped, tags, names, spawned,
                 reports, watchVars, workVars, cntVars>>

\* lines 182-195: one file of the walk; the walk ends after the last file
WalkFile ==
  /\ mainPc = "walk"
  /\ IF walkIdx > Len(fsDir)
       THEN mainPc' = "loaded" /\ UNCHANGED <<e, walkIdx>>
       ELSE LET fi == fsDir[walkIdx]
                ext == Ext(fi)
                rulefile == JoinPath(ResolveLink(rulesPath), fi)
            IN  /\ e' = IF ValidRuleExt(ext) THEN Load(e, rulefile) ELSE e
                /\ walkIdx' = walkIdx + 1
                /\ UNCHANGED mainPc
  /\ UNCHANGED <<flagVars, rulesPath, unzipped, exitCode, tags, names, spawned,
                 reports, watchVars, workVars, cntVars>>

\* lines 199-212: the counters start at zero, and the timeout goroutine is
\* started when a timeout is given
RegisterTimeout ==
  /\ mainPc = "loaded"
  /\ eventCnt' = 0
  /\ alertsCnt' = 0
  /\ timerPc' = IF timeout > 0 THEN "sleep" ELSE "none"
  /\ mainPc' = "notify"
  /\ UNCHANGED <<flagVars, rulesPath, unzipped, exitCode, tags, names, e, walkIdx,
                 spawned, reports, timerSent, intPc, intSent, workVars, stdout>>

\* lines 214-222: the goroutine waiting for the interrupt signal is started
RegisterInterrupt ==
  /\ mainPc = "notify"
  /\ intPc' = "wait"
  /\ mainPc' = "spawn"
  /\ UNCHANGED <<flagVars, rulesPath, unzipped, exitCode, tags, names, e, walkIdx,
                 spawned, reports, timerPc, timerSent, intSent, workVars, cntVars>>

\* lines 224-254: one iteration of the loop starting a goroutine per channel;
\* after the last one main blocks in waitGr.Wait()
StartWorker ==
  /\ mainPc = "spawn"
  /\ IF spawned < Len(channels)
       THEN /\ spawned' = spawned + 1
            /\ wpc' = [wpc EXCEPT ![spawned + 1] = "start"]
            /\ winChan' = [winChan EXCEPT ![spawned + 1] = channels[spawned + 1]]
            /\ UNCHANGED mainPc
       ELSE /\ mainPc' = "wait"
            /\ UNCHANGED <<spawned, wpc, winChan>>
  /\ UNCHANGED <<flagVars, rulesPath, unzipped, exitCode, tags, names, e, walkIdx,
                 reports, watchVars, sub, delivered, xe, event, err, tmp, cntVars>>

AllDone_NoWait == TRUE

AllDone_WaitsForWatchers ==
  /\ \A w \in 1..spawned : wpc[w] = "done"
  /\ timerPc # "send"
  /\ intPc # "send"

\* line 255: waitGr.Wait() returns once every started worker called Done
AllDone == \A w \in 1..spawned : wpc[w] = "done"

WaitJoin ==
  /\ mainPc = "wait"
  /\ AllDone
  /\ mainPc' = "report"
  /\ UNCHANGED <<flagVars, rulesPath, unzipped, exitCode, tags, names, e, walkIdx,
                 spawned, reports, watchVars, workVars, cntVars>>

\* lines 257-262: the statistics report, and the return of main
Report ==
  /\ mainPc = "report"
  /\ reports' = Append(reports, [events |-> eventCnt, alerts |-> alertsCnt,
                                  rules |-> Count(e)])
  /\ Exit(exitSuccess)
  /\ UNCHANGED <<flagVars, rulesPath, unzipped, tags, names, e, walkIdx, spawned,
                 watchVars, workVars, cntVars>>

\* --------------------------------------------------------------- the watchers

AfterTrigger_NoBroadcast == "end"

AfterTrigger_AlwaysSend == "send"

\* what a watcher does once its trigger fired: the loop over windowsChannels
\* blocks in its first send, or ends at once when there is no channel
AfterTrigger == IF Len(windowsChannels) > 0 THEN "send" ELSE "end"

AfterSend_OneToken(sent) == "end"

\* the loop of lines 208-210 and 219-221 after one more send
AfterSend(sent) == IF sent < Len(windowsChannels) THEN "send" ELSE "end"

\* line 207: time.Sleep(timeout) returns
TimerFires ==
  /\ ~Exited
  /\ timerPc = "sleep"
  /\ timerPc' = AfterTrigger
  /\ UNCHANGED <<flagVars, mainVars, timerSent, intPc, intSent, workVars, cntVars>>

\* line 218: an interrupt signal is delivered on osSignals
InterruptArrives ==
  /\ ~Exited
  /\ intPc = "wait"
  /\ intPc' = AfterTrigger
  /\ UNCHANGED <<flagVars, mainVars, timerPc, timerSent, intSent, workVars, cntVars>>

\* the subscription of worker w receives from signals and ends its sequence
Stopped(w) == [sub EXCEPT ![w] = "stopped"]

\* line 209: the timeout goroutine's send meets the receive of w's subscription
TimerSend(w) ==
  /\ ~Exited
  /\ timerPc = "send"
  /\ sub[w] = "open"
  /\ sub' = Stopped(w)
  /\ timerSent' = timerSent + 1
  /\ timerPc' = AfterSend(timerSent + 1)
  /\ UNCHANGED <<flagVars, mainVars, intPc, intSent, wpc, winChan, delivered, xe,
                 event, err, tmp, cntVars>>

\* line 220: the interrupt goroutine's send meets the receive of w's subscription
InterruptSend(w) ==
  /\ ~Exited
  /\ intPc = "send"
  /\ sub[w] = "open"
  /\ sub' = Stopped(w)
  /\ intSent' = intSent + 1
  /\ intPc' = AfterSend(intSent + 1)
  /\ UNCHANGED <<flagVars, mainVars, timerPc, timerSent, wpc, winChan, delivered, xe,
                 event, err, tmp, cntVars>>

\* ---------------------------------------------------------------- the workers

\* lines 233-238: alias lookup, then the subscription is opened
Subscribe(w) ==
  /\ ~Exited
  /\ wpc[w] = "start"
  /\ winChan' = [winChan EXCEPT ![w] = ResolveAlias(winChan[w])]
  /\ sub' = [sub EXCEPT ![w] = "open"]
  /\ wpc' = [wpc EXCEPT ![w] = "range"]
  /\ UNCHANGED <<flagVars, mainVars, watchVars, delivered, xe, event, err, tmp, cntVars>>

\* the source behind w's subscription ends its sequence on its own
SourceCloses(w) ==
  /\ ~Exited
  /\ sub[w] = "open"
  /\ sub' = [sub EXCEPT ![w] = "closed"]
  /\ UNCHANGED <<flagVars, mainVars, watchVars, wpc, winChan, delivered, xe, event,
                 err, tmp, cntVars>>

\* lines 239-244: the next raw event arrives on ec and is converted
ReceiveEvent(w) ==
  /\ ~Exited
  /\ wpc[w] = "range"
  /\ sub[w] = "open"
  /\ delivered < feed
  /\ \E x \in RawEvents :
       LET conv == XMLEventToGoEvtxMap(x)
       IN  /\ xe' = [xe EXCEPT ![w] = x]
           /\ event' = [event EXCEPT ![w] = conv.ge]
           /\ err' = [err EXCEPT ![w] = conv.err]
  /\ delivered' = delivered + 1
  /\ wpc' = [wpc EXCEPT ![w] = "match"]
  /\ UNCHANGED <<flagVars, mainVars, watchVars, winChan, sub, tmp, cntVars>>

IsAlert_IgnoresThreshold(m) == Cardinality(m.n) > 0

\* lines 245-246: the event is an alert
IsAlert(m) == Cardinality(m.n) > 0 /\ m.crit >= criticalityThresh

\* lines 245-247: match, compare with the threshold, print the alert; xe, event
\* and err are not read again before the next iteration assigns them
MatchEvent(w) ==
  /\ ~Exited
  /\ wpc[w] = "match"
  /\ IF IsAlert(Match(e, event[w]))
       THEN /\ stdout' = stdout + 1
            /\ wpc' = [wpc EXCEPT ![w] = "alertRd"]
       ELSE /\ wpc' = [wpc EXCEPT ![w] = "evRd"]
            /\ UNCHANGED stdout
  /\ xe' = [xe EXCEPT ![w] = NoEvent]
  /\ event' = [event EXCEPT ![w] = {}]
  /\ err' = [err EXCEPT ![w] = FALSE]
  /\ UNCHANGED <<flagVars, mainVars, watchVars, winChan, sub, delivered, tmp,
                 eventCnt, alertsCnt>>

\* line 248, alertsCnt++: the read of the shared counter
AlertRead(w) ==
  /\ ~Exited
  /\ wpc[w] = "alertRd"
  /\ tmp' = [tmp EXCEPT ![w] = alertsCnt]
  /\ wpc' = [wpc EXCEPT ![w] = "alertWr"]
  /\ UNCHANGED <<flagVars, mainVars, watchVars, winChan, sub, delivered, xe, event,
                 err, cntVars>>

\* line 248, alertsCnt++: the write of the shared counter
AlertWrite(w) ==
  /\ ~Exited
  /\ wpc[w] = "alertWr"
  /\ alertsCnt' = tmp[w] + 1
  /\ wpc' = [wpc EXCEPT ![w] = "evRd"]
  /\ UNCHANGED <<flagVars, mainVars, watchVars, winChan, sub, delivered, xe, event,
                 err, tmp, eventCnt, stdout>>

\* line 251, eventCnt++: the read of the shared counter
EventRead(w) ==
  /\ ~Exited
  /\ wpc[w] = "evRd"
  /\ tmp' = [tmp EXCEPT ![w] = eventCnt]
  /\ wpc' = [wpc EXCEPT ![w] = "evWr"]
  /\ UNCHANGED <<flagVars, mainVars, watchVars, winChan, sub, delivered, xe, event,
                 err, cntVars>>

\* line 251, eventCnt++: the write of the shared counter; back to the range
EventWrite(w) ==
  /\ ~Exited
  /\ wpc[w] = "evWr"
  /\ eventCnt' = tmp[w] + 1
  /\ wpc' = [wpc EXCEPT ![w] = "range"]
  /\ tmp' = [tmp EXCEPT ![w] = 0]
  /\ UNCHANGED <<flagVars, mainVars, watchVars, winChan, sub, delivered, xe, event,
                 err, alertsCnt, stdout>>

WorkerExit_IgnoresSubscription(w) ==
  /\ ~Exited
  /\ wpc[w] = "range"
  /\ wpc' = [wpc EXCEPT ![w] = "done"]
  /\ UNCHANGED <<flagVars, mainVars, watchVars, winChan, sub, delivered, xe, event,
                 err, tmp, cntVars>>

WorkerExit_AbortsInFlight(w) ==
  /\ ~Exited
  /\ wpc[w] \in {"range", "match", "alertRd", "alertWr", "evRd", "evWr"}
  /\ sub[w] \in {"stopped", "closed"}
  /\ wpc' = [wpc EXCEPT ![w] = "done"]
  /\ UNCHANGED <<flagVars, mainVars, watchVars, winChan, sub, delivered, xe, event,
                 err, tmp, cntVars>>

\* lines 239, 232: ec is closed, the range ends, the deferred waitGr.Done runs
WorkerExit(w) ==
  /\ ~Exited
  /\ wpc[w] = "range"
  /\ sub[w] \in {"stopped", "closed"}
  /\ wpc' = [wpc EXCEPT ![w] = "done"]
  /\ UNCHANGED <<flagVars, mainVars, watchVars, winChan, sub, delivered, xe, event,
                 err, tmp, cntVars>>

\* ------------------------------------------------------------ specifications

MainStep ==
  \/ CheckVersion
  \/ UpdateDatabase
  \/ ControlParameters
  \/ Initialization
  \/ Validation
  \/ LoadRules
  \/ WalkFile
  \/ RegisterTimeout
  \/ RegisterInterrupt
  \/ StartWorker
  \/ WaitJoin
  \/ Report

WorkerStep(w) ==
  \/ Subscribe(w)
  \/ ReceiveEvent(w)
  \/ MatchEvent(w)
  \/ AlertRead(w)
  \/ AlertWrite(w)
  \/ EventRead(w)
  \/ EventWrite(w)
  \/ WorkerExit(w)

Next ==
  \/ MainStep
  \/ TimerFires
  \/ InterruptArrives
  \/ \E w \in Workers : TimerSend(w)
  \/ \E w \in Workers : InterruptSend(w)
  \/ \E w \in Workers : SourceCloses(w)
  \/ \E w \in Workers : WorkerStep(w)

Spec == Init /\ [][Next]_vars

SpecRun == InitRun /\ [][Next]_vars

\* The scheduler runs every goroutine that can take a step: main, the timer
\* once its sleep is over, a send on signals that a subscription is ready to
\* receive, and every step of a worker that does not wait for the source.
\* Nothing forces an interrupt, a new event, or a source to close.
WorkerProgress(w) ==
  \/ Subscribe(w)
  \/ MatchEvent(w)
  \/ AlertRead(w)
  \/ AlertWrite(w)
  \/ EventRead(w)
  \/ EventWrite(w)
  \/ WorkerExit(w)

Fairness ==
  /\ WF_vars(MainStep)
  /\ WF_vars(TimerFires)
  /\ \A w \in Workers : WF_vars(TimerSend(w))
  /\ \A w \in Workers : WF_vars(InterruptSend(w))
  /\ \A w \in Workers : WF_vars(WorkerProgress(w))

FairRun == InitFair /\ [][Next]_vars /\ Fairness

\* ------------------------------------------------------------------ claims

NumWorkers == Len(windowsChannels)
AllWorkersDone == \A w \in 1..NumWorkers : wpc[w] = "done"
TimerTriggered == timerPc \in {"send", "end"}
InterruptTriggered == intPc \in {"send", "end"}
Triggered == TimerTriggered \/ InterruptTriggered
Active(w) == wpc[w] \notin {"none", "done"}
Reported == Len(reports) = 1

\* C1: the loop sending one stop token per channel is entered at most once in
\* a run, whichever triggers fire.
C1_BroadcastAtMostOnce ==
  NumWorkers > 0 => ~(TimerTriggered /\ InterruptTriggered)

\* C2 as stated: once a trigger fired, every worker active at that moment
\* eventually has a stop token received by its subscription.
C2_EveryActiveWorkerGetsToken ==
  \A w \in Workers : (Triggered /\ Active(w)) ~> (sub[w] = "stopped")

\* C2 amended: once a trigger fired, every worker active at that moment
\* eventually has a stop token received by its subscription, unless its
\* subscription closed on its own first.
C2_ActiveWorkerStoppedOrClosed ==
  \A w \in Workers : (Triggered /\ Active(w)) ~> (sub[w] \in {"stopped", "closed"})

C2_Witness ==
  /\ NumWorkers >= 2
  /\ timerSent = NumWorkers
  /\ \A w \in 1..NumWorkers : sub[w] = "stopped" /\ wpc[w] = "done"

\* C3 as stated: when both the deadline and the interrupt fired, every one of
\* the N workers receives a stop token and terminates.
C3_BothFireAllReceiveToken ==
  (TimerTriggered /\ InterruptTriggered)
     ~> (\A w \in 1..NumWorkers : sub[w] = "stopped" /\ wpc[w] = "done")

\* C3 amended: when both the deadline and the interrupt fired, every one of
\* the N workers terminates, after a stop token or after its source closed on
\* its own, and main reports once; no worker receives two tokens and at most
\* N tokens are received in all, the rest is never delivered.
C3_BothFireAllTerminate ==
  /\ (TimerTriggered /\ InterruptTriggered)
        ~> (AllWorkersDone /\ Exited /\ exitCode = exitSuccess /\ Reported)
  /\ [](timerSent + intSent
           = Cardinality({ w \in Workers : sub[w] = "stopped" }))
  /\ [](timerSent + intSent <= NumWorkers)

C3_Witness ==
  /\ NumWorkers >= 2
  /\ timerSent >= 1
  /\ intSent >= 1
  /\ intPc = "send"
  /\ AllWorkersDone
  /\ Reported

\* C4: with a positive timeout and at least one channel, every worker ends
\* after the timer was started and main reports the statistics, exactly once.
C4_DeadlineEndsRun ==
  /\ (timerPc = "sleep" /\ NumWorkers >= 1)
        ~> (AllWorkersDone /\ Exited /\ exitCode = exitSuccess /\ Reported)
  /\ [](Len(reports) <= 1)

C4_Witness ==
  /\ NumWorkers >= 1
  /\ timerSent = NumWorkers
  /\ intPc = "wait"
  /\ AllWorkersDone
  /\ Reported

\* C5: when no event raised an alert, the event count main reports equals the
\* number of events the workers processed.
C5_NoLostIncrement ==
  (Reported /\ stdout = 0) => reports[1].events = delivered

BothFilters == Len(tagsVar) > 0 /\ Len(namesVar) > 0
NothingStarted ==
  /\ spawned = 0
  /\ timerPc = "none"
  /\ intPc = "none"
  /\ \A w \in Workers : wpc[w] = "none" /\ sub[w] = "none"

AllowListed(name) == Ext(name) \in {<<".","g","e","n">>, <<".","g","e","n","e">>}
PastLoad == mainPc \in {"loaded", "notify", "spawn", "wait", "report"} \/ Reported
DirMode == (mainPc = "walk" \/ PastLoad) /\ IsDir(ResolveLink(rulesPath))
FileMode == PastLoad /\ IsFile(ResolveLink(rulesPath))
WalkDone == DirMode /\ PastLoad

\* C8: after the walk of a rule directory the engine holds as many rules as
\* there are files with an allow-listed extension that parse, and no file with
\* another extension was passed to Load.
C8_LoadedCountIsAllowListedParsing ==
  /\ WalkDone =>
       Count(e) = Cardinality({ i \in 1..Len(fsDir) :
                                  AllowListed(fsDir[i]) /\ fsDir[i] \notin fsBad })
  /\ DirMode => \A i \in 1..Len(e.loads) : AllowListed(Base(e.loads[i]))

C8_Witness ==
  /\ WalkDone
  /\ fsDir = <<FileA, FileB, FileC>>
  /\ fsBad = {}
  /\ Count(e) = 2

\* C9: a rule file that fails to load ends neither the process nor the walk:
\* a fatal exit happens only before any Load, during the walk every
\* allow-listed file before the current one was passed to Load, after it all
\* of them were, and in single-file mode the file was.
C9_LoadIsBestEffort ==
  /\ (Exited /\ exitCode = exitFail) => e.loads = <<>>
  /\ DirMode =>
       LET tried == SelectSeq(SubSeq(fsDir, 1, walkIdx - 1), AllowListed)
       IN  /\ Len(e.loads) = Len(tried)
           /\ \A i \in 1..Len(tried) :
                 e.loads[i] = JoinPath(ResolveLink(rulesPath), tried[i])
  /\ WalkDone => walkIdx = Len(fsDir) + 1
  /\ FileMode => e.loads = <<ResolveLink(rulesPath)>>

C9_Witness ==
  /\ Reported
  /\ fsDir = FilePool
  /\ fsBad = {FileA}
  /\ Len(e.loads) = 3
  /\ Count(e) = 2

\* C10: an event whose conversion failed is never printed nor counted as an
\* alert; it is counted as an event and the worker goes on.
C10_FailedConversionDropped ==
  [][\A w \in Workers :
       (wpc[w] = "match" /\ err[w] /\ wpc'[w] # "match") =>
          (stdout' = stdout /\ wpc'[w] = "evRd")]_vars

RulePathFatal == ~update /\ rulesPath \in {<<>>, PathMissing}
NoMonitoring ==
  /\ NothingStarted
  /\ stdout = 0
  /\ reports = <<>>
  /\ IF rulesPath = <<>>
       THEN mainPc \in {"flags", "update", "control", "exited"} /\ ~e.created
       ELSE mainPc \in {"flags", "update", "control", "init", "validate", "load",
                        "exited"}

C12_ReportOnceAfterJoin ==
  /\ Len(reports) <= 1
  /\ (mainPc = "report" \/ Reported) =>
       (spawned = NumWorkers /\ AllWorkersDone)
  /\ Reported =>
       (reports[1].events = eventCnt /\ reports[1].alerts = alertsCnt)

C12_Witness ==
  /\ NumWorkers >= 2
  /\ mainPc = "report"
  /\ AllWorkersDone
  /\ eventCnt >= 1


\* --------------------------------------------------------------------- C13

\* every spelling of s that differs from it in letter case only
CaseVariants(s) ==
  { [i \in 1..Len(s) |->
       IF i \in U /\ s[i] \in { UpperToLower[u] : u \in DOMAIN UpperToLower }
         THEN CHOOSE u \in DOMAIN UpperToLower : UpperToLower[u] = s[i]
         ELSE s[i]] : U \in SUBSET (1..Len(s)) }

\* the identifiers given to -c: every spelling of the two aliases, and
\* identifiers that are no alias: a channel name, a prefix of an alias, an
\* alias followed by one more character, and the canonical names themselves
AliasInputs ==
  UNION { CaseVariants(a.alias) : a \in channelAliases }
    \cup { ChanApp, <<"s","y","s","m","o">>, <<"S","y","s","m","o","n","s">>,
           SysmonChannel, ToLower(SysmonChannel), SecurityChannel }

\* runs that monitor one channel, named by each of these identifiers, whose
\* source delivers at most one event
AliasConfigs ==
  { [c EXCEPT !.windowsChannels = <<id>>, !.feed = 1] :
      c \in RunConfigs, id \in AliasInputs }
InitAlias == \E c \in AliasConfigs : InitWith(c)

SpecAlias == InitAlias /\ [][Next]_vars

\* the canonical name the alias table gives to id, id itself when id is no
\* spelling of an alias
SameButCase(s, t) ==
  /\ Len(s) = Len(t)
  /\ \A i \in 1..Len(s) :
       \/ s[i] = t[i]
       \/ s[i] \in DOMAIN UpperToLower /\ UpperToLower[s[i]] = t[i]
Canonical(id) ==
  LET known == { a \in channelAliases : SameButCase(id, a.alias) }
  IN  IF known # {} THEN (CHOOSE a \in known : TRUE).channel ELSE id

\* C13: once a worker has resolved its identifier, the channel it subscribes
\* to is the alias's canonical name when the identifier is a spelling of an
\* alias in any letter case, and the identifier itself, in its original
\* case, otherwise; every worker that was started resolves its identifier.
C13_AliasResolution ==
  \A w \in 1..spawned :
    /\ wpc[w] # "none"
    /\ wpc[w] = "start" => winChan[w] = windowsChannels[w]
    /\ wpc[w] # "start" =>
         LET id == windowsChannels[w]
         IN  /\ winChan[w] = Canonical(id)
             /\ \A a \in channelAliases :
                  ToLower(id) = a.alias => winChan[w] = a.channel
             /\ (\A a \in channelAliases : ToLower(id) # a.alias) => winChan[w] = id

C13_Witness ==
  /\ spawned = 1
  /\ windowsChannels[1] = <<"s","Y","s","M","o","N">>
  /\ winChan[1] = SysmonChannel
  /\ sub[1] = "open"


\* --------------------------------------------------------------------- C14

TokensConsumed == Cardinality({ w \in Workers : sub[w] = "stopped" })
Processing == {"match", "alertRd", "alertWr", "evRd", "evWr"}

DoneOnlyWhenEnded ==
  /\ TokensConsumed = timerSent + intSent
  /\ \A w \in Workers : wpc[w] = "done" => sub[w] \in {"stopped", "closed"}

ExitOnlyFromRange ==
  \A w \in Workers :
    /\ (wpc[w] # "done" /\ wpc'[w] = "done") =>
         wpc[w] = "range" /\ sub[w] \in {"stopped", "closed"}
    /\ wpc[w] = "match" => wpc'[w] \in {"match", "alertRd", "evRd"}
    /\ wpc[w] \in Processing => wpc'[w] \in Processing \cup {"range"}

\* C14: a worker is done only when its subscription consumed a stop token
\* or its source closed on its own, and every stopped subscription stands for
\* one token sent; the step that ends a worker is taken between two events,
\* never by the conversion or the match of an event, whatever their outcome.
C14_ExitOnlyOnStopOrClose == []DoneOnlyWhenEnded /\ [][ExitOnlyFromRange]_vars

C14_Witness ==
  /\ wpc[1] = "done"
  /\ sub[1] = "stopped"
  /\ delivered >= 1
  /\ timerSent + intSent = 1


\* --------------------------------------------------------------------- C15

StopArrives(w) == sub[w] = "open" /\ sub'[w] = "stopped"

Cooperative ==
  \A w \in Workers :
    /\ StopArrives(w) =>
         /\ wpc'[w] = wpc[w]
         /\ xe'[w] = xe[w] /\ event'[w] = event[w] /\ tmp'[w] = tmp[w]
    /\ (sub[w] = "stopped" /\ wpc[w] = "match") =>
         \/ wpc'[w] = "match"
         \/ wpc'[w] = (IF IsAlert(Match(e, event[w])) THEN "alertRd" ELSE "evRd")
    /\ (sub[w] = "stopped" /\ wpc[w] = "alertRd") => wpc'[w] \in {"alertRd", "alertWr"}
    /\ (sub[w] = "stopped" /\ wpc[w] = "alertWr") => wpc'[w] \in {"alertWr", "evRd"}
    /\ (sub[w] = "stopped" /\ wpc[w] = "evRd") => wpc'[w] \in {"evRd", "evWr"}
    /\ (sub[w] = "stopped" /\ wpc[w] = "evWr") =>
         \/ wpc'[w] = "evWr"
         \/ wpc'[w] = "range" /\ eventCnt' = tmp[w] + 1
    /\ (sub[w] = "stopped" /\ wpc[w] = "range") =>
         /\ wpc'[w] \in {"range", "done"}
         /\ xe'[w] = NoEvent
         /\ delivered' = delivered \/ \E v \in Workers \ {w} : wpc'[v] # wpc[v]
    /\ sub[w] = "stopped" => sub'[w] = "stopped"

\* C15: a stop token that arrives while a worker handles an event leaves
\* the worker where it is; the worker then takes the alert decision for that
\* event and increments eventCnt as it would have without the token, and
\* only then ends; once its subscription has consumed a token the worker
\* receives no further event.
C15_CooperativeCancellation == [][Cooperative]_vars

C15_Witness ==
  /\ sub[1] = "stopped"
  /\ wpc[1] = "evWr"
  /\ alertsCnt = 1


\* --------------------------------------------------------------------- C16

C17_EveryLoadAllowListed ==
  \A i \in 1..Len(e.loads) : AllowListed(e.loads[i])

\* C17 amended: when the rule path is a directory every path handed to the
\* load operation has an extension of the allow-set; when it is a file, that
\* file is the one path handed to it, whatever its extension.
C17_LoadAllowListedOrRulePath ==
  LET realPath == ResolveLink(rulesPath)
  IN  /\ IsDir(realPath) =>
           \A i \in 1..Len(e.loads) :
             /\ AllowListed(e.loads[i])
             /\ \E j \in 1..Len(fsDir) : e.loads[i] = JoinPath(realPath, fsDir[j])
      /\ IsFile(realPath) => e.loads \in {<<>>, <<realPath>>}
      /\ (~IsDir(realPath) /\ ~IsFile(realPath)) => e.loads = <<>>

C17_Witness ==
  /\ WalkDone
  /\ FileC \in Range(fsDir)
  /\ Len(e.loads) >= 2
  /\ fsBad # {}


\* --------------------------------------------------------------------- C18

WatcherBlocked == timerPc = "send" \/ intPc = "send"
JoinReady ==
  /\ mainPc \in {"spawn", "wait"}
  /\ spawned = NumWorkers
  /\ AllWorkersDone

\* C18: once every worker has exited, main passes the join and reports the
\* statistics, also while a watcher is blocked in a send on signals that no
\* subscription will receive.
C18_BlockedWatcherNeverBlocksJoin ==
  /\ JoinReady ~> Reported
  /\ (JoinReady /\ WatcherBlocked) ~> (Reported /\ WatcherBlocked)

C18_Witness ==
  /\ Reported
  /\ NumWorkers >= 1
  /\ timerPc = "send"
  /\ timerSent < NumWorkers


\* --------------------------------------------------------------------- C19

\* C19: the alert count of the report is at most its event count, for any
\* number of workers and any interleaving of their counter updates.
C19_AlertsAtMostEvents ==
  Reported => reports[1].alerts <= reports[1].events


\* --------------------------------------------------------------------- C20

NoSources == NumWorkers = 0

IdleRun ==
  /\ spawned = 0
  /\ \A w \in Workers : wpc[w] = "none" /\ sub[w] = "none"
  /\ timerSent = 0 /\ intSent = 0
  /\ timerPc # "send" /\ intPc # "send"
  /\ eventCnt = 0 /\ alertsCnt = 0 /\ stdout = 0
  /\ Reported => (reports[1].events = 0 /\ reports[1].alerts = 0)
  /\ mainPc \in {"spawn", "wait", "report"} => ENABLED MainStep

\* C20: without a configured source no worker is started, no watcher sends
\* or attempts to send a stop token, main is never blocked at the join, and
\* the report, which counts no event and no alert, is reached whether or not
\* the deadline has passed or an interrupt has arrived.
C20_NoSourcesReportsAtOnce ==
  /\ [](NoSources => IdleRun)
  /\ (NoSources /\ mainPc = "spawn") ~> (Reported /\ IdleRun)

C20_Witness ==
  /\ NoSources
  /\ Reported
  /\ reports[1].events = 0
  /\ timerPc = "sleep"
  /\ intPc = "wait"

====
